---- MODULE Spec2Model ----
(***************************************************************************)
(* ptb.py: the Penn Treebank reader.  The model covers the label grammar   *)
(* (Symbol), the tree representation (TExpr, a heap of nodes linked by     *)
(* first_child / next_sibling), the stack parser, the traversal combinator *)
(* and the transforms and analyses built on it.                            *)
(*                                                                         *)
(* Python strings are sequences of one-character strings, so that the      *)
(* regular expressions of the source are computed character by character.  *)
(***************************************************************************)
EXTENDS Integers, Sequences, FiniteSets, TLC

VARIABLES
    tokens,     \* the tokens lex() has handed to parse() so far
    stack,      \* parse(): the local `stack`
    heap,       \* every TExpr object ever constructed, by identity (index)
    yielded,    \* the trees parse() has yielded, in order
    pc,         \* "running" | "done" | the name of the exception raised
    tx,         \* the tree the caller holds (a node identity, Null if none)
    op,         \* the last operation the caller applied, with its arguments
    ret,        \* the value that operation returned
    label,      \* the label string handed to Symbol()
    sym,        \* the Symbol object built from it
    frames,     \* the calls of traverse in progress, innermost last
    state       \* the state object threaded through those calls

vars == <<tokens, stack, heap, yielded, pc, tx, op, ret, label, sym, frames, state>>

----------------------------------------------------------------------------
(* Bounds of the model *)

MaxTokens == 7
MaxLabelLen == 5
MaxNodes == 4

----------------------------------------------------------------------------
(* Python values *)

\* Python's None where a string is expected: no string is a one-element
\* sequence holding a four-character element.
None == <<"None">>

\* None where an object (a Symbol, a Leaf, a tuple) is expected.
NoObject == [none |-> TRUE]

\* A TExpr reference that is None.
Null == 0

Last(s) == s[Len(s)]

\* The element of a one-element set.  The({F(x) : x \in {e}}) is F(e) with e
\* computed once, where LET x == e IN F(x) computes e at every use of x: it
\* binds the locals of the recursive definitions below.
The(S) == CHOOSE x \in S : TRUE
Front(s) == SubSeq(s, 1, Len(s) - 1)

RECURSIVE Join(_)
\* ''.join(parts)
Join(parts) == IF parts = <<>> THEN <<>> ELSE Head(parts) \o Join(Tail(parts))

----------------------------------------------------------------------------
(* Lexer tokens *)

LPAREN_TOKEN == "LPAREN"
RPAREN_TOKEN == "RPAREN"
STRING_TOKEN == "STRING"

Token(token_id, value) == [token_id |-> token_id, value |-> value]

\* A TExpr on the parser's stack.
Ref(n) == [node |-> n]

----------------------------------------------------------------------------
(* Symbol: the label grammar *)

Digits == {"0", "1", "2", "3", "4", "5", "6", "7", "8", "9"}

\* [^0-9=-]
IsLabelChar(c) == c \notin Digits \cup {"=", "-"}
\* [0-9]
IsDigit(c) == c \in Digits

RECURSIVE RunEnd(_, _, _)
\* The end (inclusive) of the maximal run of characters of one class that
\* starts at position i of s; i - 1 when the run is empty.  digit is TRUE for
\* [0-9]+ and FALSE for [^0-9=-]+.
RunEnd(s, i, digit) ==
    IF i > Len(s) THEN i - 1
    ELSE IF (digit /\ IsDigit(s[i])) \/ (~digit /\ IsLabelChar(s[i]))
         THEN RunEnd(s, i + 1, digit)
         ELSE i - 1

\* The match of _pat that starts exactly at position i of s, if any: the
\* alternatives are tried in the order label, tag, parind, coind.
MatchAt(s, i) ==
    IF i = 1 /\ IsLabelChar(s[1])
    THEN [group |-> "label", text |-> SubSeq(s, 1, RunEnd(s, 1, FALSE)),
          end |-> RunEnd(s, 1, FALSE)]
    ELSE IF s[i] = "-" /\ i < Len(s) /\ IsLabelChar(s[i + 1])
    THEN [group |-> "tag", text |-> SubSeq(s, i + 1, RunEnd(s, i + 1, FALSE)),
          end |-> RunEnd(s, i + 1, FALSE)]
    ELSE IF s[i] = "=" /\ i < Len(s) /\ IsDigit(s[i + 1])
    THEN [group |-> "parind", text |-> SubSeq(s, i + 1, RunEnd(s, i + 1, TRUE)),
          end |-> RunEnd(s, i + 1, TRUE)]
    ELSE IF s[i] = "-" /\ i < Len(s) /\ IsDigit(s[i + 1])
    THEN [group |-> "coind", text |-> SubSeq(s, i + 1, RunEnd(s, i + 1, TRUE)),
          end |-> RunEnd(s, i + 1, TRUE)]
    ELSE [group |-> "none", text |-> <<>>, end |-> i]

RECURSIVE FindIter(_, _, _)
\* for m in self._pat.finditer(label): ... , from position i on
FindIter(s, i, self) ==
    IF i > Len(s) THEN self
    ELSE The({
         FindIter(s, m.end + 1,
            CASE m.group = "label"  -> [self EXCEPT !.label = m.text]
              [] m.group = "tag"    -> [self EXCEPT !.tags = Append(@, m.text)]
              [] m.group = "parind" -> [self EXCEPT !.parindex = m.text]
              [] m.group = "coind"  -> [self EXCEPT !.coindex = m.text]
              [] OTHER              -> self)
         : m \in {MatchAt(s, i)}})

\* Symbol.__init__
Symbol(lbl) ==
    FindIter(lbl, 1,
        [label |-> lbl, tags |-> <<>>, coindex |-> None, parindex |-> None,
         parent |-> None])

\* Symbol.__str__ with the coindex written before the parent index.
Symbol_str_CoindexFirst(self) ==
    self.label
    \o Join([i \in 1..Len(self.tags) |-> <<"-">> \o self.tags[i]])
    \o (IF self.coindex # None THEN <<"-">> \o self.coindex ELSE <<>>)
    \o (IF self.parindex # None THEN <<"=">> \o self.parindex ELSE <<>>)
    \o (IF self.parent # None THEN <<"^">> \o self.parent ELSE <<>>)

\* Symbol.__str__
Symbol_str(self) ==
    self.label
    \o Join([i \in 1..Len(self.tags) |-> <<"-">> \o self.tags[i]])
    \o (IF self.parindex # None THEN <<"=">> \o self.parindex ELSE <<>>)
    \o (IF self.coindex # None THEN <<"-">> \o self.coindex ELSE <<>>)
    \o (IF self.parent # None THEN <<"^">> \o self.parent ELSE <<>>)

SBJ == <<"S", "B", "J">>

\* Symbol.simplify without `self.parent = None`.
Symbol_simplify_KeepParent(self, keep_sbj) ==
    [self EXCEPT
        !.tags = IF (\E i \in 1..Len(self.tags) : self.tags[i] = SBJ) /\ keep_sbj
                 THEN <<SBJ>> ELSE <<>>,
        !.coindex = None,
        !.parindex = None]

\* Symbol.simplify
Symbol_simplify(self, keep_sbj) ==
    [self EXCEPT
        !.tags = IF (\E i \in 1..Len(self.tags) : self.tags[i] = SBJ) /\ keep_sbj
                 THEN <<SBJ>> ELSE <<>>,
        !.coindex = None,
        !.parindex = None,
        !.parent = None]

----------------------------------------------------------------------------
(* Leaf and TExpr *)

\* Leaf.__init__
Leaf(word, pos) == [word |-> word, pos |-> pos]

\* A TExpr whose head is None.
NoHead == NoObject

\* TExpr.__init__: all three arguments are required.
TExpr(head, first_child, next_sibling) ==
    [head |-> head, first_child |-> first_child, next_sibling |-> next_sibling]

\* TExpr.symbol: the head if it has a `label` attribute, else the falsy None
HasSymbol(h, n) == "label" \in DOMAIN h[n].head
\* TExpr.leaf: the head if it has a `pos` attribute, else the falsy None
HasLeaf(h, n) == "pos" \in DOMAIN h[n].head

RECURSIVE Chain(_, _)
\* TExpr.children, started at node c: c and its next_sibling chain
Chain(h, c) == IF c = Null THEN <<>> ELSE <<c>> \o Chain(h, h[c].next_sibling)

\* list(tx.children())
Children(h, n) == Chain(h, h[n].first_child)

----------------------------------------------------------------------------
(* Traversal *)

NONE == <<"-", "N", "O", "N", "E", "-">>

\* The visitors of the passes.  A visitor is named by the pass that defines it
\* (f.name) and closes over that pass's arguments (f.keep_sbj).  A world w is
\* the objects of the heap together with the state threaded through traverse.
World(h, st) == [heap |-> h, st |-> st]

\* remove_empty_elements.pre
remove_empty_pre(w, n) ==
    IF ~HasLeaf(w.heap, n) THEN World(w.heap, Append(w.st, <<>>)) ELSE w

\* The filter with the wrong sentinel: [c for q,c in cs if q is q_none]
OkNodes_KeepsDropped(cs) ==
    LET IsNone(e) == e[1] = "q_none"
        kept == SelectSeq(cs, IsNone)
    IN  [i \in 1..Len(kept) |-> kept[i][2]]

\* [c for q,c in cs if q is q_ok]
OkNodes(cs) ==
    LET IsOk(e) == e[1] = "q_ok"
        kept == SelectSeq(cs, IsOk)
    IN  [i \in 1..Len(kept) |-> kept[i][2]]

\* tx.first_child = cs[0]; each c.next_sibling = the next one; the last one's
\* next_sibling = None
Relink(h, n, cs) ==
    LET h1 == [h EXCEPT ![n].first_child = cs[1]] IN
    [m \in DOMAIN h1 |->
        IF \E i \in 1..Len(cs) : cs[i] = m
        THEN LET i == CHOOSE i \in 1..Len(cs) : cs[i] = m IN
             [h1[m] EXCEPT !.next_sibling = IF i < Len(cs) THEN cs[i + 1] ELSE Null]
        ELSE h1[m]]

\* remove_empty_elements.post
remove_empty_post(w, n) ==
    IF HasLeaf(w.heap, n)
    THEN LET q == IF w.heap[n].head.pos = NONE THEN "q_none" ELSE "q_ok"
             st == w.st
         IN  World(w.heap, [st EXCEPT ![Len(st)] = Append(@, <<q, n>>)])
    ELSE LET cs == OkNodes(Last(w.st))
             st == Front(w.st)
             q == IF cs # <<>> THEN "q_ok" ELSE "q_none"
             h2 == IF cs # <<>> THEN Relink(w.heap, n, cs) ELSE w.heap
         IN  World(h2, [st EXCEPT ![Len(st)] = Append(@, <<q, n>>)])

\* simplify_labels.proc: returns None
simplify_proc(w, n, keep_sbj) ==
    IF HasSymbol(w.heap, n)
    THEN World([w.heap EXCEPT ![n].head = Symbol_simplify(@, keep_sbj)], None)
    ELSE World(w.heap, None)

RECURSIVE JoinDash(_)
\* '-'.join(parts)
JoinDash(parts) ==
    IF Len(parts) = 0 THEN <<>>
    ELSE IF Len(parts) = 1 THEN parts[1]
    ELSE parts[1] \o <<"-">> \o JoinDash(Tail(parts))

\* annot_parent.pre
annot_parent_pre(w, n) ==
    LET s == IF HasSymbol(w.heap, n)
             THEN JoinDash(<<w.heap[n].head.label>> \o w.heap[n].head.tags)
             ELSE <<>>
        h2 == IF w.st # <<>> /\ HasSymbol(w.heap, n)
              THEN [w.heap EXCEPT ![n].head.parent = Last(w.st)]
              ELSE w.heap
    IN  World(h2, Append(w.st, s))

RECURSIVE SplitCaret(_)
\* s.split('^')[0]: s up to its first '^'
SplitCaret(s) ==
    IF s = <<>> \/ s[1] = "^" THEN <<>> ELSE <<s[1]>> \o SplitCaret(Tail(s))

\* The state of a traversal that an AttributeError has ended: the exception
\* leaves traverse at once, so no later visitor call is made.
AttributeError == <<"AttributeError">>

\* remove_parent.pre: returns None.  On a node whose head is None both
\* tx.symbol() and tx.leaf() are None, and None has no attribute `pos`.
remove_parent_pre(w, n) ==
    IF w.st = AttributeError THEN w
    ELSE IF HasSymbol(w.heap, n)
    THEN World([w.heap EXCEPT ![n].head.label = SplitCaret(@)], None)
    ELSE IF HasLeaf(w.heap, n)
    THEN World([w.heap EXCEPT ![n].head.pos = SplitCaret(@)], None)
    ELSE World(w.heap, AttributeError)

\* annot_parent.post returning st instead of st[:-1].
annot_parent_post_NoPop(w, n) == w

\* annot_parent.post
annot_parent_post(w, n) == World(w.heap, Front(w.st))

\* all_spans.pre
all_spans_pre(w, n) ==
    World(w.heap,
          [spans |-> w.st.spans,
           stack |-> Append(w.st.stack, <<w.st.count, w.st.offset>>),
           offset |-> w.st.offset,
           count |-> w.st.count + 1])

\* all_spans.post without the test on -NONE-: every leaf advances the offset.
all_spans_post_CountsNone(w, n) ==
    LET num == Last(w.st.stack)[1]
        begin == Last(w.st.stack)[2]
        h == w.heap
        end == IF HasLeaf(h, n) THEN begin + 1 ELSE w.st.offset
        lbl == IF HasLeaf(h, n) THEN h[n].head.pos
               ELSE IF HasSymbol(h, n) THEN Symbol_str(h[n].head)
               ELSE None
    IN  World(h,
          [spans |-> IF lbl # None /\ lbl # <<>>
                     THEN Append(w.st.spans, <<num, <<lbl, begin, end>>>>)
                     ELSE w.st.spans,
           stack |-> Front(w.st.stack),
           offset |-> end,
           count |-> w.st.count])

\* all_spans.post
all_spans_post(w, n) ==
    LET num == Last(w.st.stack)[1]
        begin == Last(w.st.stack)[2]
        h == w.heap
        end == IF HasLeaf(h, n) /\ h[n].head.pos # NONE THEN begin + 1
               ELSE w.st.offset
        lbl == IF HasLeaf(h, n) THEN h[n].head.pos
               ELSE IF HasSymbol(h, n) THEN Symbol_str(h[n].head)
               ELSE None
    IN  World(h,
          [spans |-> IF lbl # None /\ lbl # <<>>
                     THEN Append(w.st.spans, <<num, <<lbl, begin, end>>>>)
                     ELSE w.st.spans,
           stack |-> Front(w.st.stack),
           offset |-> end,
           count |-> w.st.count])

\* make_anchored.pre
make_anchored_pre(w, n) ==
    World(w.heap,
          [nodes |-> Append(w.st.nodes, w.st.offset),
           stack |-> Append(w.st.stack, [index |-> w.st.index, children |-> <<>>]),
           index |-> w.st.index + 1,
           offset |-> w.st.offset])

\* Span.__init__
Span(lbl, begin, end) == [label |-> lbl, begin |-> begin, end |-> end]

\* make_anchored.post with the test of all_spans: a -NONE- leaf does not advance
\* the offset.
make_anchored_post_SkipsNone(w, n) ==
    LET top == Last(w.st.stack)
        stk == Front(w.st.stack)
        h == w.heap
        end == IF HasLeaf(h, n) /\ h[n].head.pos # NONE THEN w.st.offset + 1
               ELSE w.st.offset
        begin == w.st.nodes[top.index + 1]
        entry == [span |-> Span(IF HasSymbol(h, n) THEN h[n].head ELSE NoObject,
                                begin, end),
                  edge |-> IF ~HasLeaf(h, n)
                           THEN [index |-> top.index, children |-> top.children]
                           ELSE NoObject]
    IN  World(h,
          [nodes |-> [w.st.nodes EXCEPT ![top.index + 1] = entry],
           stack |-> [stk EXCEPT ![Len(stk)].children = Append(@, top.index)],
           index |-> w.st.index,
           offset |-> end])

\* make_anchored.post; the nodes list is indexed from 0 in the source
make_anchored_post(w, n) ==
    LET top == Last(w.st.stack)
        stk == Front(w.st.stack)
        h == w.heap
        end == IF HasLeaf(h, n) THEN w.st.offset + 1 ELSE w.st.offset
        begin == w.st.nodes[top.index + 1]
        entry == [span |-> Span(IF HasSymbol(h, n) THEN h[n].head ELSE NoObject,
                                begin, end),
                  edge |-> IF ~HasLeaf(h, n)
                           THEN [index |-> top.index, children |-> top.children]
                           ELSE NoObject]
    IN  World(h,
          [nodes |-> [w.st.nodes EXCEPT ![top.index + 1] = entry],
           stack |-> [stk EXCEPT ![Len(stk)].children = Append(@, top.index)],
           index |-> w.st.index,
           offset |-> end])

\* state = pre(tx, state), when pre is not None
Pre(f, w, n) ==
    CASE f.name = "remove_empty_elements" -> remove_empty_pre(w, n)
      [] f.name = "simplify_labels"       -> simplify_proc(w, n, f.keep_sbj)
      [] f.name = "annot_parent"          -> annot_parent_pre(w, n)
      [] f.name = "remove_parent"         -> remove_parent_pre(w, n)
      [] f.name = "all_spans"             -> all_spans_pre(w, n)
      [] f.name = "make_anchored"         -> make_anchored_pre(w, n)

\* state = post(tx, state), when post is not None
Post(f, w, n) ==
    CASE f.name = "remove_empty_elements" -> remove_empty_post(w, n)
      [] f.name = "simplify_labels"       -> w
      [] f.name = "annot_parent"          -> annot_parent_post(w, n)
      [] f.name = "remove_parent"         -> w
      [] f.name = "all_spans"             -> all_spans_post(w, n)
      [] f.name = "make_anchored"         -> make_anchored_post(w, n)

RECURSIVE traverse(_, _, _), traverse_from(_, _, _)
\* traverse(tx, pre, post, state)
traverse(f, w, n) ==
    The({The({Post(f, w2, n) : w2 \in {traverse_from(f, w1, w1.heap[n].first_child)}})
         : w1 \in {Pre(f, w, n)}})

\* for c in tx.children(): state = traverse(c, pre, post, state), from child c
\* on; the generator reads c.next_sibling after c has been traversed.
traverse_from(f, w, c) ==
    IF c = Null THEN w
    ELSE The({traverse_from(f, w1, w1.heap[c].next_sibling)
              : w1 \in {traverse(f, w, c)}})

----------------------------------------------------------------------------
(* Transforms and analyses *)

\* remove_empty_elements(tx): the heap it leaves
remove_empty_elements(h, t) ==
    traverse([name |-> "remove_empty_elements"], World(h, <<<<>>>>), t).heap

\* simplify_labels(tx, keep_sbj): the heap it leaves
simplify_labels(h, t, keep_sbj) ==
    traverse([name |-> "simplify_labels", keep_sbj |-> keep_sbj], World(h, None), t).heap

\* annot_parent(tx): the heap it leaves
annot_parent(h, t) ==
    traverse([name |-> "annot_parent"], World(h, <<>>), t).heap

\* remove_parent(tx): the exception it raises, if any, and the heap it leaves
remove_parent(h, t) ==
    LET w == traverse([name |-> "remove_parent"], World(h, None), t) IN
    [pc |-> IF w.st = AttributeError THEN "AttributeError" ELSE "done", heap |-> w.heap]

RECURSIVE Sorted(_)
\* spans.sort(), on (num, span) pairs with distinct nums: insertion sort
Sorted(spans) ==
    IF spans = <<>> THEN <<>>
    ELSE The({
            LET Below(e) == e[1] < x[1]
                NotBelow(e) == ~(e[1] < x[1])
            IN  SelectSeq(rest, Below) \o <<x>> \o SelectSeq(rest, NotBelow)
         : x \in {Last(spans)}, rest \in {Sorted(Front(spans))}})

\* all_spans(tx): the list it returns
all_spans(h, t) ==
    LET st == traverse([name |-> "all_spans"],
                       World(h, [spans |-> <<>>, stack |-> <<>>, offset |-> 0,
                                 count |-> 0]), t).st
        spans == Sorted(st.spans)
    IN  [i \in 1..Len(spans) |-> spans[i][2]]

\* make_anchored(tx): the AnchoredTree it returns
make_anchored(h, t) ==
    LET st == traverse([name |-> "make_anchored"],
                       World(h, [nodes |-> <<>>,
                                 stack |-> <<[index |-> -1, children |-> <<>>]>>,
                                 index |-> 0, offset |-> 0]), t).st
        HasEdge(e) == e.edge # NoObject
        withEdge == SelectSeq(st.nodes, HasEdge)
    IN  [spans |-> [i \in 1..Len(st.nodes) |-> st.nodes[i].span],
         edges |-> [i \in 1..Len(withEdge) |-> withEdge[i].edge]]

ROOT == <<"R", "O", "O", "T">>
TOP == <<"T", "O", "P">>

\* mark_top(tx): the exception it raises, if any, and the heap it leaves.
\* cs[0].symbol() is None for a leaf or headless child, and None has no
\* attribute `parent`.
mark_top(h, t) ==
    LET cs == Children(h, t) IN
    IF Len(cs) # 1 THEN [pc |-> "AssertionError", heap |-> h]
    ELSE IF ~HasSymbol(h, cs[1]) THEN [pc |-> "AttributeError", heap |-> h]
    ELSE [pc |-> "done", heap |-> [h EXCEPT ![cs[1]].head.parent = ROOT]]

\* _dummy_labels with TOP left out.
dummy_labels_RootOnly == {ROOT}

\* _dummy_labels
dummy_labels == {ROOT, TOP}

\* add_root(tx, root_label): the exception it raises, if any, the heap it
\* leaves and the tree it returns.  The else branch calls TExpr with two
\* arguments; TExpr.__init__ has no default for next_sibling, so the call raises
\* TypeError and no object is built.
add_root(h, t, root_label) ==
    IF h[t].head = NoHead \/ (HasSymbol(h, t) /\ h[t].head.label \in dummy_labels)
    THEN [pc |-> "done", heap |-> [h EXCEPT ![t].head = Symbol(root_label)], tx |-> t]
    ELSE [pc |-> "TypeError", heap |-> h, tx |-> t]

----------------------------------------------------------------------------
(* Parser *)

\* parse.istok: getattr(t, 'token_id', None) is i
istok(t, i) == "token_id" \in DOMAIN t /\ t.token_id = i

\* The outcome of handling one token: the locals and objects parse() leaves
\* behind, the exception it raised if any, and the tree it yielded if any.
Outcome(p, stk, h, out) == [pc |-> p, stack |-> stk, heap |-> h, out |-> out]

\* The leaf rule: w = Leaf(stack[-1].value, stack[-2].value), three pops,
\* and the new TExpr is appended to the stack.
reduce_leaf(stk, h) ==
    LET n == Len(stk)
        w == Leaf(stk[n].value, stk[n - 1].value)
        h2 == Append(h, TExpr(w, Null, Null))
    IN  Outcome("running", Append(SubSeq(stk, 1, n - 3), Ref(Len(h2))), h2, Null)

RECURSIVE pop_items(_, _, _, _)
\* while not istok(stack[-1], LPAREN_TOKEN): head = stack.pop(); ...
\* stack[-1] raises IndexError on an empty stack.
pop_items(stk, h, t, tail) ==
    IF stk = <<>>
    THEN [err |-> TRUE, stack |-> stk, heap |-> h, tx |-> t, tail |-> tail]
    ELSE IF istok(Last(stk), LPAREN_TOKEN)
    THEN [err |-> FALSE, stack |-> stk, heap |-> h, tx |-> t, tail |-> tail]
    ELSE LET head == Last(stk) IN
         IF istok(head, STRING_TOKEN)
         THEN LET h2 == Append(h, TExpr(Symbol(head.value), tail, Null))
              IN  pop_items(Front(stk), h2, Len(h2), tail)
         ELSE pop_items(Front(stk),
                        [h EXCEPT ![head.node].next_sibling = tail],
                        t, head.node)

\* What follows the loop: the '(' is popped, a headless TExpr is built when no
\* label was seen, and the tree is yielded only if the stack is now empty.
finish_constituent(l) ==
    LET stk == Front(l.stack)
        h2 == IF l.tx = Null THEN Append(l.heap, TExpr(NoHead, l.tail, Null))
              ELSE l.heap
        t == IF l.tx = Null THEN Len(h2) ELSE l.tx
    IN  IF stk = <<>>
        THEN Outcome("running", stk, h2, t)
        ELSE Outcome("running", Append(stk, Ref(t)), h2, Null)

\* The constituent rule (the else branch).
reduce_constituent(stk, h) ==
    The({IF l.err THEN Outcome("IndexError", l.stack, l.heap, Null)
         ELSE finish_constituent(l)
         : l \in {pop_items(stk, h, Null, Null)}})

\* The ')' branch.  The condition is evaluated left to right and stops at the
\* first false conjunct; stack[-k] raises IndexError when the stack holds
\* fewer than k items.
parse_rparen(stk, h) ==
    LET n == Len(stk) IN
    IF n < 1 THEN Outcome("IndexError", stk, h, Null)
    ELSE IF ~istok(stk[n], STRING_TOKEN) THEN reduce_constituent(stk, h)
    ELSE IF n < 2 THEN Outcome("IndexError", stk, h, Null)
    ELSE IF ~istok(stk[n - 1], STRING_TOKEN) THEN reduce_constituent(stk, h)
    ELSE IF n < 3 THEN Outcome("IndexError", stk, h, Null)
    ELSE IF ~istok(stk[n - 2], LPAREN_TOKEN) THEN reduce_constituent(stk, h)
    ELSE reduce_leaf(stk, h)

\* The body of `for tok in lex(line_or_lines)`.
parse_token(stk, h, tok) ==
    IF tok.token_id = LPAREN_TOKEN THEN Outcome("running", Append(stk, tok), h, Null)
    ELSE IF tok.token_id = STRING_TOKEN THEN Outcome("running", Append(stk, tok), h, Null)
    ELSE parse_rparen(stk, h)

RECURSIVE parse_from(_, _, _)
\* parse() run over a whole token sequence: st is [stack, heap, yielded, pc].
parse_from(st, toks, i) ==
    IF st.pc # "running" THEN st
    ELSE IF i > Len(toks) THEN [st EXCEPT !.pc = "done"]
    ELSE The({
         parse_from([stack |-> r.stack, heap |-> r.heap, pc |-> r.pc,
                     yielded |-> IF r.out # Null THEN Append(y, r.out) ELSE y],
                    toks, i + 1)
         : r \in {parse_token(st.stack, st.heap, toks[i])}, y \in {st.yielded}})

\* list(parse(text)), with the objects it built
parse(toks) ==
    parse_from([stack |-> <<>>, heap |-> <<>>, yielded |-> <<>>, pc |-> "running"],
               toks, 1)

----------------------------------------------------------------------------
(* The parser, one token at a time *)

LP == Token(LPAREN_TOKEN, None)
RP == Token(RPAREN_TOKEN, None)
Str(chars) == Token(STRING_TOKEN, chars)

\* The atoms the lexer hands to the step-by-step parser.
Atoms == {<<"N", "P">>, <<"w">>}

NoOp == [name |-> "none"]

InitParse ==
    /\ tokens = <<>>
    /\ stack = <<>>
    /\ heap = <<>>
    /\ yielded = <<>>
    /\ pc = "running"
    /\ tx = Null
    /\ op = NoOp
    /\ ret = None
    /\ label = None
    /\ sym = NoObject
    /\ frames = <<>>
    /\ state = None

\* parse() consumes token tok.
Consume(tok) ==
    /\ pc = "running"
    /\ Len(tokens) < MaxTokens
    /\ LET r == parse_token(stack, heap, tok) IN
        /\ tokens' = Append(tokens, tok)
        /\ stack' = r.stack
        /\ heap' = r.heap
        /\ pc' = r.pc
        /\ yielded' = IF r.out # Null THEN Append(yielded, r.out) ELSE yielded
        /\ tx' = IF r.out # Null THEN r.out ELSE tx
    /\ UNCHANGED <<op, ret, label, sym, frames, state>>

LParen == Consume(LP)
String == \E a \in Atoms : Consume(Str(a))
RParen == Consume(RP)

\* lex() is exhausted: the for loop ends and the generator returns.
EndOfInput ==
    /\ pc = "running"
    /\ pc' = "done"
    /\ UNCHANGED <<tokens, stack, heap, yielded, tx, op, ret, label, sym, frames, state>>

NextParse == LParen \/ String \/ RParen \/ EndOfInput

SpecParse == InitParse /\ [][NextParse]_vars

----------------------------------------------------------------------------
(* Claims about the parser: SpecParse *)

RECURSIVE Balance(_, _)
\* The number of '(' minus the number of ')' among the first i tokens.
Balance(toks, i) ==
    IF i = 0 THEN 0
    ELSE Balance(toks, i - 1)
         + (CASE toks[i].token_id = LPAREN_TOKEN -> 1
              [] toks[i].token_id = RPAREN_TOKEN -> -1
              [] OTHER -> 0)

\* The ')' tokens that complete a balanced top-level group.
GroupEnds(toks) ==
    {i \in 1..Len(toks) :
        toks[i].token_id = RPAREN_TOKEN /\ Balance(toks, i - 1) = 1}

\* Every atom of the stream lies inside some parenthesized group.
AtomsInsideGroups(toks) ==
    \A i \in 1..Len(toks) :
        toks[i].token_id = STRING_TOKEN => Balance(toks, i - 1) >= 1

\* C1: parse yields exactly one root per complete, balanced top-level group:
\* as long as no error was raised, the number of trees yielded equals the number
\* of top-level groups closed so far (stated for streams whose atoms all lie
\* inside a group, which covers the top-level group ( ATOM ATOM )).
C1_OneRootPerGroup ==
    (pc # "IndexError" /\ AtomsInsideGroups(tokens))
        => Len(yielded) = Cardinality(GroupEnds(tokens))

\* C2: unbalanced input is fatal: a ')' with no matching '(' raises an error,
\* and the sequence never ends normally while a group is still open.
C2_UnbalancedIsFatal ==
    /\ (\E i \in 1..Len(tokens) :
            tokens[i].token_id = RPAREN_TOKEN /\ Balance(tokens, i - 1) = 0)
        => pc = "IndexError"
    /\ pc = "done" => Balance(tokens, Len(tokens)) = 0

RECURSIVE GroupItems(_)
\* The items above the topmost '(' of the stack, bottom first.
GroupItems(stk) ==
    IF stk = <<>> \/ istok(Last(stk), LPAREN_TOKEN) THEN <<>>
    ELSE Append(GroupItems(Front(stk)), Last(stk))

SelectItems(items, Test(_)) == SelectSeq(items, Test)
IsAtom(t) == istok(t, STRING_TOKEN)
IsNode(t) == "node" \in DOMAIN t

\* C3: a constituent reduce over a group of Nodes and at most one label ATOM,
\* wherever the ATOM stands, builds a constituent labelled by that ATOM (headless
\* without one) whose child chain is exactly the group's Nodes in order.
C3_ConstituentKeepsAllNodes ==
    [][ LET items == GroupItems(stack)
            atoms == SelectSeq(items, IsAtom)
            nodes == SelectSeq(items, IsNode)
            t == Len(heap')
        IN  (/\ tokens' = Append(tokens, RP)
             /\ \E i \in 1..Len(stack) : istok(stack[i], LPAREN_TOKEN)
             /\ Len(atoms) <= 1)
            => /\ pc' = "running"
               /\ heap'[t].head = IF atoms = <<>> THEN NoHead
                                  ELSE Symbol(atoms[1].value)
               /\ Children(heap', t) = [i \in 1..Len(nodes) |-> nodes[i].node]
      ]_vars

----------------------------------------------------------------------------
(* The label grammar on its own: SpecLabel *)

LabelChars == {"N", "1", "2", "-", "="}

\* Every label string of 1..MaxLabelLen characters.
LabelStrings == UNION {[1..n -> LabelChars] : n \in 1..MaxLabelLen}

InitLabel ==
    /\ tokens = <<>>
    /\ stack = <<>>
    /\ heap = <<>>
    /\ yielded = <<>>
    /\ pc = "done"
    /\ tx = Null
    /\ op = NoOp
    /\ ret = None
    /\ label \in LabelStrings
    /\ sym = NoObject
    /\ frames = <<>>
    /\ state = None

\* sym = Symbol(label)
NewSymbol ==
    /\ op = NoOp
    /\ sym' = Symbol(label)
    /\ op' = [name |-> "Symbol"]
    /\ UNCHANGED <<tokens, stack, heap, yielded, pc, tx, ret, label, frames, state>>

\* str(sym)
StrSymbol ==
    /\ op.name = "Symbol"
    /\ ret' = Symbol_str(sym)
    /\ op' = [name |-> "str"]
    /\ UNCHANGED <<tokens, stack, heap, yielded, pc, tx, label, sym, frames, state>>

NextLabel == NewSymbol \/ StrSymbol

SpecLabel == InitLabel /\ [][NextLabel]_vars

RECURSIVE IsParts(_, _)
\* s from position i on is a sequence of '-tag', '-digits' and '=digits' parts.
IsParts(s, i) ==
    IF i > Len(s) THEN TRUE
    ELSE IF i = Len(s) THEN FALSE
    ELSE IF s[i] = "-" /\ IsLabelChar(s[i + 1]) THEN IsParts(s, RunEnd(s, i + 1, FALSE) + 1)
    ELSE IF s[i] \in {"-", "="} /\ IsDigit(s[i + 1]) THEN IsParts(s, RunEnd(s, i + 1, TRUE) + 1)
    ELSE FALSE

\* The label micro-grammar: a base label, then parts in any order.
MatchesGrammar(s) ==
    /\ s # <<>>
    /\ IsLabelChar(s[1])
    /\ IsParts(s, RunEnd(s, 1, FALSE) + 1)

RECURSIVE SkipTags(_, _)
\* The position after the '-tag' parts that start at position i.
SkipTags(s, i) ==
    IF i < Len(s) /\ s[i] = "-" /\ IsLabelChar(s[i + 1])
    THEN SkipTags(s, RunEnd(s, i + 1, FALSE) + 1)
    ELSE i

\* The position after an optional part made of mark and digits at position i.
SkipIndex(s, i, mark) ==
    IF i < Len(s) /\ s[i] = mark /\ IsDigit(s[i + 1])
    THEN RunEnd(s, i + 1, TRUE) + 1
    ELSE i

\* A base label, then the tags, then at most one '=digits', then at most one
\* '-digits': the order in which __str__ writes the parts.
IsCanonical(s) ==
    /\ s # <<>>
    /\ IsLabelChar(s[1])
    /\ SkipIndex(s, SkipIndex(s, SkipTags(s, RunEnd(s, 1, FALSE) + 1), "="), "-")
            = Len(s) + 1

\* C6 as stated: str(Symbol(s)) = s for every s matching the micro-grammar,
\* whatever the order of its tag, coindex and parent-index parts.
C6_RoundTripAnyOrder ==
    (op.name = "str" /\ MatchesGrammar(label)) => ret = label

\* C6 amended: str(Symbol(s)) = s for every s made of a base label, then tags,
\* then at most one '=digits', then at most one '-digits', in that order.
C6_RoundTripCanonical ==
    (op.name = "str" /\ IsCanonical(label)) => ret = label

\* A label with both a parent index and a coindex was decomposed and re-composed.
C6_Witness ==
    /\ op.name = "str"
    /\ IsCanonical(label)
    /\ sym.parindex # None
    /\ sym.coindex # None
    /\ ret = label

----------------------------------------------------------------------------
(* Parsed trees as inputs of the passes *)

RECURSIVE TreeToks(_, _, _), ForestToks(_, _, _)
\* The token streams of the bracketed trees of exactly n nodes: a leaf
\* ( POS WORD ) with <<POS, WORD>> in L, or a constituent ( HEAD child ... )
\* whose HEAD is in H (<<>> for a headless constituent).
TreeToks(H, L, n) ==
    (IF n = 1 THEN {<<LP, Str(l[1]), Str(l[2]), RP>> : l \in L} ELSE {})
    \cup {<<LP>> \o hd \o f \o <<RP>> : hd \in H, f \in ForestToks(H, L, n - 1)}

\* The token streams of the sequences of trees of n nodes in all.
ForestToks(H, L, n) ==
    IF n = 0 THEN {<<>>}
    ELSE UNION {{t \o f : t \in TreeToks(H, L, k), f \in ForestToks(H, L, n - k)} :
                    k \in 1..n}

\* One top-level constituent of 1..MaxNodes nodes, its head in RH.
TreeInputs(RH, H, L) ==
    UNION {{<<LP>> \o hd \o f \o <<RP>> : hd \in RH, f \in ForestToks(H, L, n - 1)} :
                n \in 1..MaxNodes}

\* The caller has read the one tree of the input: t = list(parse(text))[0].
InitTree(inputs) ==
    \E toks \in inputs : \E st \in {parse(toks)} :
        /\ tokens = toks
        /\ stack = st.stack
        /\ heap = st.heap
        /\ yielded = st.yielded
        /\ pc = st.pc
        /\ tx = st.yielded[1]
        /\ op = NoOp
        /\ ret = None
        /\ label = None
        /\ sym = NoObject
        /\ frames = <<>>
        /\ state = None

Headless == <<>>
Headed(chars) == <<Str(chars)>>

Leaves == {<<<<"D", "T">>, <<"w">>>>, <<NONE, <<"*">>>>}

----------------------------------------------------------------------------
(* Measures of a tree, for the claims *)

RECURSIVE Preorder(_, _), PreorderFrom(_, _)
\* The nodes of the tree at n, in pre-order.
Preorder(h, n) == <<n>> \o PreorderFrom(h, h[n].first_child)
PreorderFrom(h, c) ==
    IF c = Null THEN <<>>
    ELSE Preorder(h, c) \o PreorderFrom(h, h[c].next_sibling)

IsLeafNode(h, n) == "pos" \in DOMAIN h[n].head
IsNonNullLeaf(h, n) == IsLeafNode(h, n) /\ h[n].head.pos # NONE

\* The (pos, word) payloads of the leaves of the tree at n other than -NONE-.
NonNullLeaves(h, n) ==
    LET P == Preorder(h, n)
        Keep(m) == IsNonNullLeaf(h, m)
        kept == SelectSeq(P, Keep)
    IN  [i \in 1..Len(kept) |-> h[kept[i]].head]

\* The first_child and next_sibling links of every object.
Links(h) == [m \in DOMAIN h |-> <<h[m].first_child, h[m].next_sibling>>]

----------------------------------------------------------------------------
(* remove_empty_elements: SpecEmpty *)

EmptyInputs == TreeInputs({Headless, Headed(<<"S">>)}, {Headless, Headed(<<"N", "P">>)}, Leaves)

InitEmpty == InitTree(EmptyInputs)

\* remove_empty_elements(t)
RemoveEmptyElements ==
    /\ pc = "done"
    /\ heap' = remove_empty_elements(heap, tx)
    /\ op' = [name |-> "remove_empty_elements"]
    /\ ret' = None
    /\ UNCHANGED <<tokens, stack, yielded, pc, tx, label, sym, frames, state>>

NextEmpty == RemoveEmptyElements

SpecEmpty == InitEmpty /\ [][NextEmpty]_vars

\* C7: a pass of remove_empty_elements keeps the sequence of non-null leaves
\* reachable from the root, keeps the root, and a pass over the output of an
\* earlier pass changes no first_child or next_sibling link.
C7_RemoveEmptyFixpoint ==
    [][ /\ NonNullLeaves(heap', tx') = NonNullLeaves(heap, tx)
        /\ tx' = tx
        /\ Preorder(heap', tx')[1] = tx
        /\ op.name = "remove_empty_elements" => Links(heap') = Links(heap)
      ]_vars

\* A pass has dropped an empty element from a tree that keeps a non-null leaf.
C7_Witness ==
    /\ op.name = "remove_empty_elements"
    /\ NonNullLeaves(heap, tx) # <<>>
    /\ LET h0 == parse(tokens).heap
           P0 == Preorder(h0, tx)
       IN  /\ \E i \in 1..Len(P0) : IsLeafNode(h0, P0[i]) /\ h0[P0[i]].head.pos = NONE
           /\ Len(Preorder(heap, tx)) < Len(P0)

----------------------------------------------------------------------------
(* all_spans and make_anchored: SpecSpans *)

InitSpans == InitTree(EmptyInputs)

\* all_spans(t)
AllSpans ==
    /\ pc = "done"
    /\ ret' = all_spans(heap, tx)
    /\ op' = [name |-> "all_spans"]
    /\ UNCHANGED <<tokens, stack, heap, yielded, pc, tx, label, sym, frames, state>>

\* make_anchored(t)
MakeAnchored ==
    /\ pc = "done"
    /\ ret' = make_anchored(heap, tx)
    /\ op' = [name |-> "make_anchored"]
    /\ UNCHANGED <<tokens, stack, heap, yielded, pc, tx, label, sym, frames, state>>

NextSpans == AllSpans \/ MakeAnchored

SpecSpans == InitSpans /\ [][NextSpans]_vars

\* The number of nodes among P[i..j] that satisfy Counts.
CountIn(P, i, j, Counts(_)) == Cardinality({k \in i..j : Counts(P[k])})

\* The last pre-order index of the subtree of the node at pre-order index i.
SubtreeEnd(h, P, i) == i + Len(Preorder(h, P[i])) - 1

\* The label all_spans gives a node: a leaf's pos, a Symbol's string; a headless
\* constituent has none and gets no triple.
SpanLabel(h, n) ==
    IF IsLeafNode(h, n) THEN h[n].head.pos
    ELSE IF "label" \in DOMAIN h[n].head THEN Symbol_str(h[n].head)
    ELSE None

\* C8: all_spans returns the triples of the labelled nodes in pre-order; begin is
\* the number of non-null leaves before the node in pre-order and end is begin
\* plus the number of non-null leaves in the node's subtree.
C8_AllSpansPreorder ==
    op.name = "all_spans" =>
        LET P == Preorder(heap, tx)
            NonNull(m) == IsNonNullLeaf(heap, m)
            Labelled(i) == SpanLabel(heap, P[i]) # None
            idx == SelectSeq([i \in 1..Len(P) |-> i], Labelled)
        IN  /\ Len(ret) = Len(idx)
            /\ \A k \in 1..Len(idx) :
                LET i == idx[k]
                    begin == CountIn(P, 1, i - 1, NonNull)
                IN  ret[k] = <<SpanLabel(heap, P[i]), begin,
                               begin + CountIn(P, i, SubtreeEnd(heap, P, i), NonNull)>>

\* all_spans has run on a tree with a non-null leaf after a -NONE- leaf.
C8_Witness ==
    /\ op.name = "all_spans"
    /\ \E k \in 1..Len(ret) : ret[k][1] = NONE
    /\ \E k \in 1..Len(ret) : ret[k][2] = 1 /\ ret[k][3] = 2

\* C9 as stated: make_anchored records for the node of pre-order index i the
\* begin and end of the all_spans rule (a -NONE- leaf does not advance the
\* offset), on every tree.
C9_AnchoredLikeAllSpans ==
    op.name = "make_anchored" =>
        LET P == Preorder(heap, tx)
            NonNull(m) == IsNonNullLeaf(heap, m)
        IN  /\ Len(ret.spans) = Len(P)
            /\ \A i \in 1..Len(P) :
                LET begin == CountIn(P, 1, i - 1, NonNull) IN
                /\ ret.spans[i].begin = begin
                /\ ret.spans[i].end =
                        begin + CountIn(P, i, SubtreeEnd(heap, P, i), NonNull)

\* The pre-order indices (from 0) of the children of the node at index i.
ChildIndices(h, P, i) ==
    LET cs == Children(h, P[i])
    IN  [k \in 1..Len(cs) |-> (CHOOSE j \in 1..Len(P) : P[j] = cs[k]) - 1]

\* C9 amended: make_anchored counts every leaf, -NONE- included: begin is the
\* number of leaves before the node in pre-order and end is begin plus the
\* number of leaves in its subtree, which is the all_spans rule on trees with no
\* -NONE- leaf; spans has one entry per node in pre-order, and edges has one
\* entry, with the children's indices, per non-leaf node and none per leaf.
C9_AnchoredCountsEveryLeaf ==
    op.name = "make_anchored" =>
        LET P == Preorder(heap, tx)
            AnyLeaf(m) == IsLeafNode(heap, m)
            NonNull(m) == IsNonNullLeaf(heap, m)
            Inner(i) == ~IsLeafNode(heap, P[i])
            idx == SelectSeq([i \in 1..Len(P) |-> i], Inner)
        IN  /\ Len(ret.spans) = Len(P)
            /\ \A i \in 1..Len(P) :
                LET begin == CountIn(P, 1, i - 1, AnyLeaf) IN
                /\ ret.spans[i].begin = begin
                /\ ret.spans[i].end =
                        begin + CountIn(P, i, SubtreeEnd(heap, P, i), AnyLeaf)
                /\ (\A j \in 1..Len(P) : AnyLeaf(P[j]) => NonNull(P[j]))
                    => /\ ret.spans[i].begin = CountIn(P, 1, i - 1, NonNull)
                       /\ ret.spans[i].end = ret.spans[i].begin
                            + CountIn(P, i, SubtreeEnd(heap, P, i), NonNull)
            /\ Len(ret.edges) = Len(idx)
            /\ \A k \in 1..Len(idx) :
                ret.edges[k] = [index |-> idx[k] - 1,
                                children |-> ChildIndices(heap, P, idx[k])]

\* make_anchored has run on a tree with a -NONE- leaf followed by another leaf.
C9_Witness ==
    /\ op.name = "make_anchored"
    /\ \E i \in 1..Len(Preorder(heap, tx)) :
        /\ IsLeafNode(heap, Preorder(heap, tx)[i])
        /\ heap[Preorder(heap, tx)[i]].head.pos = NONE
        /\ ret.spans[i].end = ret.spans[i].begin + 1
        /\ i < Len(ret.spans)
    /\ Len(ret.edges) >= 2

----------------------------------------------------------------------------
(* add_root: SpecRoot *)

S_LABEL == <<"S">>

RootInputs ==
    TreeInputs({Headless, Headed(ROOT), Headed(TOP \o <<"-", "1">>), Headed(S_LABEL)},
               {Headed(<<"N", "P">>)}, {<<<<"D", "T">>, <<"w">>>>})

RootLabels == {ROOT, TOP, S_LABEL}

InitRoot == InitTree(RootInputs)

\* t = add_root(t, root_label=lbl)
AddRoot ==
    /\ pc = "done"
    /\ \E lbl \in RootLabels :
        LET r == add_root(heap, tx, lbl) IN
        /\ pc' = r.pc
        /\ heap' = r.heap
        /\ tx' = r.tx
        /\ op' = [name |-> "add_root", root_label |-> lbl]
    /\ ret' = None
    /\ UNCHANGED <<tokens, stack, yielded, label, sym, frames, state>>

NextRoot == AddRoot

SpecRoot == InitRoot /\ [][NextRoot]_vars

\* C4: add_root replaces the head in place when the tree has no head symbol or
\* a reserved head label, and in every other case returns a new constituent
\* labelled root_label whose only child is the original tree, left unchanged.
C4_AddRootReplacesOrWraps ==
    [][ op'.name = "add_root" =>
          /\ pc' = "done"
          /\ IF heap[tx].head = NoHead
                \/ (HasSymbol(heap, tx) /\ heap[tx].head.label \in {ROOT, TOP})
             THEN /\ tx' = tx
                  /\ heap'[tx].head = Symbol(op'.root_label)
                  /\ Links(heap') = Links(heap)
             ELSE /\ tx' \notin DOMAIN heap
                  /\ heap'[tx'].head = Symbol(op'.root_label)
                  /\ Children(heap', tx') = <<tx>>
                  /\ heap'[tx'].next_sibling = Null
                  /\ \A m \in DOMAIN heap : heap'[m] = heap[m]
      ]_vars

\* What C5 asks of a call add_root(tx, lbl) on a tree whose head label is lbl:
\* the same node comes back with the same links and head label, and a second
\* call changes nothing.
AddRootIsNoOp ==
    /\ pc' = "done"
    /\ tx' = tx
    /\ Links(heap') = Links(heap)
    /\ HasSymbol(heap', tx)
    /\ heap'[tx].head.label = heap[tx].head.label
    /\ LET again == add_root(heap', tx', op'.root_label) IN
        /\ again.pc = "done"
        /\ again.tx = tx'
        /\ again.heap = heap'

\* C5 as stated: add_root is idempotent on a tree whose head label equals the
\* root label, for every root label, reserved or not.
C5_AddRootIdempotentAnyLabel ==
    [][ (/\ op'.name = "add_root"
         /\ HasSymbol(heap, tx)
         /\ heap[tx].head.label = op'.root_label)
        => AddRootIsNoOp ]_vars

\* C5 amended: add_root is idempotent on a tree whose head label equals the
\* root label when that label is one of the reserved labels ROOT and TOP.
C5_AddRootIdempotentReserved ==
    [][ (/\ op'.name = "add_root"
         /\ op'.root_label \in {ROOT, TOP}
         /\ HasSymbol(heap, tx)
         /\ heap[tx].head.label = op'.root_label)
        => AddRootIsNoOp ]_vars

\* add_root(tx, 'TOP') has returned a tree parsed with the head TOP-1, children
\* in place.
C5_Witness ==
    /\ op.name = "add_root"
    /\ op.root_label = TOP
    /\ pc = "done"
    /\ parse(tokens).heap[tx].head = Symbol(TOP \o <<"-", "1">>)
    /\ heap[tx].head = Symbol(TOP)
    /\ Children(heap, tx) # <<>>

----------------------------------------------------------------------------
(* simplify_labels, annot_parent and mark_top: SpecLabels *)

NP_TMP_SBJ_2_1 == <<"N", "P", "-", "T", "M", "P", "-", "S", "B", "J", "=", "2", "-", "1">>
S_TMP == <<"S", "-", "T", "M", "P">>

NP_S == <<"N", "P", "^", "S">>
DT_NP == <<"D", "T", "^", "N", "P">>

LabelInputs ==
    TreeInputs({Headed(NP_TMP_SBJ_2_1), Headed(S_TMP)},
               {Headed(NP_TMP_SBJ_2_1), Headed(NP_S), Headless},
               {<<DT_NP, <<"w">>>>})

InitLabels == InitTree(LabelInputs)

\* simplify_labels(t, keep_sbj)
SimplifyLabels ==
    /\ pc = "done"
    /\ \E keep_sbj \in BOOLEAN :
        /\ heap' = simplify_labels(heap, tx, keep_sbj)
        /\ op' = [name |-> "simplify_labels", keep_sbj |-> keep_sbj]
    /\ ret' = None
    /\ UNCHANGED <<tokens, stack, yielded, pc, tx, label, sym, frames, state>>

\* annot_parent(t)
AnnotParent ==
    /\ pc = "done"
    /\ heap' = annot_parent(heap, tx)
    /\ op' = [name |-> "annot_parent"]
    /\ ret' = None
    /\ UNCHANGED <<tokens, stack, yielded, pc, tx, label, sym, frames, state>>

\* remove_parent(t)
RemoveParent ==
    /\ pc = "done"
    /\ LET r == remove_parent(heap, tx) IN
        /\ pc' = r.pc
        /\ heap' = r.heap
    /\ op' = [name |-> "remove_parent"]
    /\ ret' = None
    /\ UNCHANGED <<tokens, stack, yielded, tx, label, sym, frames, state>>

\* mark_top(t)
MarkTop ==
    /\ pc = "done"
    /\ LET r == mark_top(heap, tx) IN
        /\ pc' = r.pc
        /\ heap' = r.heap
    /\ op' = [name |-> "mark_top"]
    /\ ret' = None
    /\ UNCHANGED <<tokens, stack, yielded, tx, label, sym, frames, state>>

\* The label transforms of main.trans, in any order and any number of times.
NextLabels == SimplifyLabels \/ AnnotParent \/ RemoveParent \/ MarkTop

SpecLabels == InitLabels /\ [][NextLabels]_vars

HasSBJ(tags) == \E i \in 1..Len(tags) : tags[i] = SBJ

\* What simplify_labels does to everything but the parent_mark: tags, coindex
\* and parent_index as the claim says, base labels, leaves and links kept, and
\* a second pass gives the same tree.
SimplifyEffect ==
    /\ \A m \in DOMAIN heap :
        IF "label" \in DOMAIN heap[m].head
              /\ \E i \in 1..Len(Preorder(heap, tx)) : Preorder(heap, tx)[i] = m
        THEN /\ heap'[m].head.label = heap[m].head.label
             /\ heap'[m].head.tags =
                    IF op'.keep_sbj /\ HasSBJ(heap[m].head.tags) THEN <<SBJ>> ELSE <<>>
             /\ heap'[m].head.coindex = None
             /\ heap'[m].head.parindex = None
        ELSE heap'[m].head = heap[m].head
    /\ Links(heap') = Links(heap)
    /\ tx' = tx
    /\ simplify_labels(heap', tx', op'.keep_sbj) = heap'

\* The nodes of the tree that carry a Symbol.
SymbolNodes(h, t) ==
    {m \in DOMAIN h : "label" \in DOMAIN h[m].head
                      /\ \E i \in 1..Len(Preorder(h, t)) : Preorder(h, t)[i] = m}

\* C10 as stated: simplify_labels changes only tags, coindex and parent_index;
\* every Symbol's parent_mark is the same as before.
C10_SimplifyKeepsParentMark ==
    [][ op'.name = "simplify_labels" =>
          /\ SimplifyEffect
          /\ \A m \in SymbolNodes(heap, tx) : heap'[m].head.parent = heap[m].head.parent
      ]_vars

\* C10 amended: simplify_labels changes only tags, coindex, parent_index and
\* parent_mark: afterwards every Symbol has coindex, parent_index and
\* parent_mark empty and tags [SBJ] or []; base labels, leaves and links are
\* kept, and a second pass gives the same tree.
C10_SimplifyClearsParentMark ==
    [][ op'.name = "simplify_labels" =>
          /\ SimplifyEffect
          /\ \A m \in SymbolNodes(heap, tx) : heap'[m].head.parent = None
      ]_vars

\* simplify_labels(t, keep_sbj=True) has cut the label NP-TMP-SBJ=2-1 down to
\* NP-SBJ.
C10_Witness ==
    /\ op.name = "simplify_labels"
    /\ op.keep_sbj
    /\ \E m \in SymbolNodes(heap, tx) :
        /\ parse(tokens).heap[m].head = Symbol(NP_TMP_SBJ_2_1)
        /\ heap[m].head = [label |-> <<"N", "P">>, tags |-> <<SBJ>>, coindex |-> None,
                           parindex |-> None, parent |-> None]

----------------------------------------------------------------------------
(* annot_parent, one visitor call at a time: SpecAnnot *)

AnnotInputs ==
    TreeInputs({Headed(S_TMP), Headless},
               {Headed(NP_TMP_SBJ_2_1), Headless},
               {<<<<"D", "T">>, <<"w">>>>})

InitAnnot == InitTree(AnnotInputs)

\* A call traverse(tx, pre, post, state) in progress: at "pre" it has not yet
\* called pre; at "loop" it is in `for c in tx.children()`, c being the node
\* the generator holds (None once it is exhausted).
Frame(n, at, c) == [tx |-> n, at |-> at, c |-> c]

\* annot_parent(t) is called on a node t of the tree: traverse(t, pre, post,
\* state=[]) starts.  op keeps the arguments and the objects as they were at
\* the call.
AnnotParentCall ==
    /\ pc = "done"
    /\ \E i \in 1..Len(Preorder(heap, tx)) :
        /\ op' = [name |-> "annot_parent", tx |-> Preorder(heap, tx)[i], before |-> heap]
        /\ frames' = <<Frame(Preorder(heap, tx)[i], "pre", Null)>>
    /\ state' = <<>>
    /\ pc' = "annot_parent"
    /\ UNCHANGED <<tokens, stack, heap, yielded, tx, ret, label, sym>>

\* state = pre(tx, state), then the generator tx.children() starts at
\* tx.first_child
TraversePre ==
    /\ pc = "annot_parent"
    /\ Last(frames).at = "pre"
    /\ \E w \in {Pre([name |-> op.name], World(heap, state), Last(frames).tx)} :
        /\ heap' = w.heap
        /\ state' = w.st
        /\ frames' = [frames EXCEPT ![Len(frames)] =
                          Frame(@.tx, "loop", w.heap[@.tx].first_child)]
    /\ UNCHANGED <<tokens, stack, yielded, pc, tx, op, ret, label, sym>>

\* traverse(c, pre, post, state) is called on the child the generator holds
TraverseChild ==
    /\ pc = "annot_parent"
    /\ Last(frames).at = "loop"
    /\ Last(frames).c # Null
    /\ frames' = Append(frames, Frame(Last(frames).c, "pre", Null))
    /\ UNCHANGED <<tokens, stack, heap, yielded, pc, tx, op, ret, label, sym, state>>

\* The children are exhausted: state = post(tx, state); return state.  The
\* caller's generator moves on to the next_sibling of the child it held; the
\* outermost call returns to annot_parent, which returns None.
TraversePost ==
    /\ pc = "annot_parent"
    /\ Last(frames).at = "loop"
    /\ Last(frames).c = Null
    /\ \E w \in {Post([name |-> op.name], World(heap, state), Last(frames).tx)} :
        /\ heap' = w.heap
        /\ state' = w.st
        /\ IF Len(frames) = 1
           THEN /\ frames' = <<>>
                /\ pc' = "done"
                /\ ret' = None
           ELSE /\ frames' = [Front(frames) EXCEPT ![Len(frames) - 1].c =
                                  w.heap[@].next_sibling]
                /\ UNCHANGED <<pc, ret>>
    /\ UNCHANGED <<tokens, stack, yielded, tx, op, label, sym>>

NextAnnot == AnnotParentCall \/ TraversePre \/ TraverseChild \/ TraversePost

SpecAnnot == InitAnnot /\ [][NextAnnot]_vars

\* The nodes of the tree at n.
NodeSet(h, n) == {Preorder(h, n)[i] : i \in 1..Len(Preorder(h, n))}

\* The node whose child list holds m.
ParentOf(h, m) ==
    CHOOSE p \in DOMAIN h : \E i \in 1..Len(Children(h, p)) : Children(h, p)[i] = m

RECURSIVE Depth(_, _, _)
\* The number of links from the node root down to the node m of its tree.
Depth(h, root, m) == IF m = root THEN 0 ELSE 1 + Depth(h, root, ParentOf(h, m))

\* The display string of a node: its base label and tags joined by '-', the
\* empty string for a node without a Symbol.
Display(h, p) ==
    IF "label" \in DOMAIN h[p].head
    THEN JoinDash(<<h[p].head.label>> \o h[p].head.tags)
    ELSE <<>>

\* C11: during annot_parent(t), at each pre call the threaded stack of ancestor
\* strings is as long as the node is deep below t; when the traversal has
\* returned the stack is empty, every constituent with a Symbol below t has as
\* parent_mark the display string of its own parent (empty under a headless
\* parent) and is otherwise as before, and t itself, every leaf, every headless
\* constituent, every link and every object outside t's tree are as before.
\* The result is the one the pass gives when run in one go.
C11_AnnotParentMarksOwnParent ==
    op.name = "annot_parent" =>
        /\ (pc = "annot_parent" /\ Last(frames).at = "pre") =>
                Len(state) = Depth(heap, op.tx, Last(frames).tx)
        /\ pc = "done" =>
            /\ Len(state) = 0
            /\ \A m \in DOMAIN heap :
                IF m \in NodeSet(heap, op.tx) \ {op.tx} /\ "label" \in DOMAIN heap[m].head
                THEN heap[m].head =
                        [op.before[m].head EXCEPT
                            !.parent = Display(op.before, ParentOf(heap, m))]
                ELSE heap[m].head = op.before[m].head
            /\ Links(heap) = Links(op.before)
            /\ heap = annot_parent(op.before, op.tx)

\* annot_parent has returned from a tree in which a constituent two levels
\* down, unmarked before, got the display string of its parent, which is not
\* the display string of its grandparent.
C11_Witness ==
    /\ op.name = "annot_parent"
    /\ pc = "done"
    /\ \E m \in NodeSet(heap, op.tx) \ {op.tx} :
        /\ "label" \in DOMAIN heap[m].head
        /\ ParentOf(heap, m) # op.tx
        /\ Display(heap, ParentOf(heap, m)) # <<>>
        /\ Display(heap, ParentOf(heap, m))
              # Display(heap, ParentOf(heap, ParentOf(heap, m)))
        /\ op.before[m].head.parent = None
        /\ heap[m].head.parent = Display(heap, ParentOf(heap, m))

====
